---- MODULE Spec2Model ----
(***************************************************************************)
(* Model of backend/server.py, the UI Navigation Agent HTTP service.       *)
(*                                                                         *)
(* server.py as stored is an interleaving of its functions: the body of    *)
(* call_navigation_agent is cut after line 155 and continues at lines      *)
(* 238-265, the body of call_navigation_agent_base64 is cut after line 193 *)
(* and continues at lines 222-236, and navigate_base64 (196-220) sits      *)
(* between the two halves.  The model follows the functions as reassembled *)
(* from these pieces.                                                      *)
(*                                                                         *)
(* Texts are sequences of characters, each a string.  The character "{"    *)
(* stands for the text of one complete JSON document; the value json.loads *)
(* gives for it is carried beside the text as a record (a "doc").          *)
(***************************************************************************)
EXTENDS Integers, Sequences, FiniteSets, TLC

\* ------------------------------------------------------------------ bounds

\* Number of requests the server receives.
NReq == 2

\* Longest run of newlines around the parts of a model reply.
MaxPad == 1

\* Most backticks an opening fence has beyond its three.
MaxExtraTicks == 1

\* ------------------------------------------------------- str methods used

\* What str.strip() takes off: the blank, the newline, the form feed (and
\* the other whitespace characters, which the model leaves out).
Whitespace == {" ", "\n", "\f"}

\* What json.loads skips around a document: of these, not the form feed.
JsonWhitespace == {" ", "\n"}

\* The backtick character (written "bt": a TLA+ string cannot hold it).
Backtick == "bt"

Fence == <<Backtick, Backtick, Backtick>>

RECURSIVE lstrip(_, _)
lstrip(s, chars) ==
    IF s # <<>> /\ Head(s) \in chars THEN lstrip(Tail(s), chars) ELSE s

RECURSIVE rstrip(_, _)
rstrip(s, chars) ==
    IF s # <<>> /\ s[Len(s)] \in chars
    THEN rstrip(SubSeq(s, 1, Len(s) - 1), chars)
    ELSE s

\* str.strip() with no argument strips whitespace; with the backtick as
\* argument it strips every backtick at both ends.
strip(s, chars) == rstrip(lstrip(s, chars), chars)

lower_char(c) ==
    CASE c = "J" -> "j" [] c = "S" -> "s" [] c = "O" -> "o" [] c = "N" -> "n"
      [] c = "P" -> "p" [] c = "G" -> "g" [] c = "E" -> "e" [] c = "W" -> "w"
      [] c = "B" -> "b" [] c = "I" -> "i" [] c = "F" -> "f" [] c = "A" -> "a"
      [] OTHER -> c

lower(s) == [i \in 1..Len(s) |-> lower_char(s[i])]

startswith(s, p) == Len(s) >= Len(p) /\ SubSeq(s, 1, Len(p)) = p

endswith(s, p) ==
    Len(s) >= Len(p) /\ SubSeq(s, Len(s) - Len(p) + 1, Len(s)) = p

\* raw[4:]
drop4(s) == SubSeq(s, 5, Len(s))

\* ------------------------------------------------------------ JSON values

\* A JSON value as Python sees it after json.loads: t is its type, n a
\* number (an int's value, a bool's 0/1, a float's value in tenths), s a
\* string.  t = "absent" marks a key the object does not have.
JV(t, n, s) == [t |-> t, n |-> n, s |-> s]

JStr(s) == JV("str", 0, s)
JInt(n) == JV("int", n, "")
JFloat(tenths) == JV("float", tenths, "")
JBool(b) == JV("bool", b, "")
JNull == JV("null", 0, "")
JObj == JV("obj", 0, "")
JAbsent == JV("absent", 0, "")

\* ------------------------------------------------------- pydantic schemas

ActionEnum == {"CLICK", "TYPE", "SCROLL", "WAIT", "COMPLETE"}

StatusEnum == {"IN_PROGRESS", "SUCCESS"}

\* int(s) for the strings the model uses; <<>> when s is not numeric.
str_as_int(s) ==
    CASE s = "5" -> <<5>>
      [] s = "1001" -> <<1001>>
      [] OTHER -> <<>>

\* pydantic's validation of an `int` field in its default (lax) mode:
\* an int is taken as is, a bool as 0/1, a float with no fractional part
\* and a numeric string are converted; anything else is an error (<<>>).
validate_int(v) ==
    CASE v.t = "int" -> <<v.n>>
      [] v.t = "bool" -> <<v.n>>
      [] v.t = "float" -> IF v.n % 10 = 0 THEN <<v.n \div 10>> ELSE <<>>
      [] v.t = "str" -> str_as_int(v.s)
      [] OTHER -> <<>>

\* validate_range with the range check left out.
validate_range_unchecked(n) == TRUE

\* validate_range with the upper end of the range excluded.
validate_range_exclusive(n) == 0 <= n /\ n < 1000

\* Coords.validate_range, run on the converted int.
validate_range(n) == 0 <= n /\ n <= 1000

\* A field of Coords: required, int, then validate_range.
validate_coord(v) ==
    LET i == validate_int(v)
    IN  IF i # <<>> /\ validate_range(i[1]) THEN i ELSE <<>>

\* A `str` field: required; only a JSON string is a str.
validate_str(v) == IF v.t = "str" THEN <<v.s>> ELSE <<>>

\* A str-Enum field: a string equal to one of the members' values.
validate_enum(v, members) ==
    IF v.t = "str" /\ v.s \in members THEN <<v.s>> ELSE <<>>

\* Coords.model_validate on the value of "coords" (x, y are its members).
Coords(c, x, y) ==
    LET vx == validate_coord(x)
        vy == validate_coord(y)
    IN  IF c.t = "obj" /\ vx # <<>> /\ vy # <<>>
        THEN <<[x |-> vx[1], y |-> vy[1]]>>
        ELSE <<>>

\* NavigationAction.model_validate(data): <<action>> or <<>> on a
\* ValidationError.
NavigationAction(data) ==
    LET plan == validate_str(data.plan)
        action == validate_enum(data.action, ActionEnum)
        target == validate_str(data.target)
        coords == Coords(data.coords, data.x, data.y)
        text_input == validate_str(data.text_input)
        status == validate_enum(data.status, StatusEnum)
    IN  IF /\ data.top = "object"
           /\ plan # <<>> /\ action # <<>> /\ target # <<>>
           /\ coords # <<>> /\ text_input # <<>> /\ status # <<>>
        THEN <<[plan |-> plan[1], action |-> action[1], target |-> target[1],
                coords |-> coords[1], text_input |-> text_input[1],
                status |-> status[1]]>>
        ELSE <<>>

\* json.loads(raw): the text must be one JSON document with nothing but
\* JSON whitespace around it; <<doc>> or <<>> on a JSONDecodeError.
json_loads(raw, doc) ==
    IF strip(raw, JsonWhitespace) = <<"{">> THEN <<doc>> ELSE <<>>

\* ------------------------------------------------------------ HTTP results

\* What a request ends with: an HTTP status, the error detail, and the
\* response body (the returned action, if any).
Response(status, detail, body) ==
    [status |-> status, detail |-> detail, body |-> body]

LLM_RESPONSE_INVALID == "LLM response invalid"

\* ------------------------------------------------------------- interpreter

\* normalize_navigate taking off the tag but not the whitespace after it.
normalize_navigate_unstripped(response_text) ==
    LET raw == strip(response_text, Whitespace)
    IN  IF startswith(raw, Fence)
        THEN LET unfenced == strip(raw, {Backtick})
             IN  IF startswith(lower(unfenced), <<"j", "s", "o", "n">>)
                 THEN drop4(unfenced)
                 ELSE unfenced
        ELSE raw

\* call_navigation_agent, lines 244-253: the text handed to json.loads.
normalize_navigate(response_text) ==
    LET raw == strip(response_text, Whitespace)
    IN  IF startswith(raw, Fence)
        THEN LET unfenced == strip(raw, {Backtick})
             IN  IF startswith(lower(unfenced), <<"j", "s", "o", "n">>)
                 THEN strip(drop4(unfenced), Whitespace)
                 ELSE unfenced
        ELSE raw

\* call_navigation_agent, lines 244-265: the handling of the model's reply.
interpret_navigate(response_text, doc) ==
    LET raw == normalize_navigate(response_text)
        data == json_loads(raw, doc)
        action == IF data = <<>> THEN <<>> ELSE NavigationAction(data[1])
    IN  IF action # <<>>
        THEN Response(200, "", action)
        ELSE Response(500, LLM_RESPONSE_INVALID, <<>>)

\* normalize_base64 looking for the tag in lower case only.
normalize_base64_case_sensitive(response_text) ==
    LET raw == strip(response_text, Whitespace)
    IN  IF startswith(raw, Fence)
        THEN LET unfenced == strip(raw, {Backtick})
             IN  IF startswith(unfenced, <<"j", "s", "o", "n">>)
                 THEN strip(drop4(unfenced), Whitespace)
                 ELSE unfenced
        ELSE raw

\* call_navigation_agent_base64, lines 187-193 and 222-224.
normalize_base64(response_text) ==
    LET raw == strip(response_text, Whitespace)
    IN  IF startswith(raw, Fence)
        THEN LET unfenced == strip(raw, {Backtick})
             IN  IF startswith(lower(unfenced), <<"j", "s", "o", "n">>)
                 THEN strip(drop4(unfenced), Whitespace)
                 ELSE unfenced
        ELSE raw

\* call_navigation_agent_base64, lines 187-193 and 222-236.
interpret_base64(response_text, doc) ==
    LET raw == normalize_base64(response_text)
        data == json_loads(raw, doc)
        action == IF data = <<>> THEN <<>> ELSE NavigationAction(data[1])
    IN  IF action # <<>>
        THEN Response(200, "", action)
        ELSE Response(500, LLM_RESPONSE_INVALID, <<>>)

\* ------------------------------------------------------- request payloads

\* An optional value (None, or a form field or JSON key that is missing)
\* is <<>>; a value v that is present is <<v>>.
None == <<>>

Some(v) == <<v>>

\* goal: missing, "", " ", " go ".
Goals == {None, Some(<<>>), Some(<<" ">>), Some(<<" ", "g", "o", " ">>)}

\* session_id: None, "", "s".
SessionIds == {None, Some(<<>>), Some(<<"s">>)}

\* context: None, "c".
Contexts == {None, Some(<<"c">>)}

\* screenshot.filename: a.png, A.JPG, a.jpeg, a.WebP, s.gif, apng.
Filenames ==
    { <<"a", ".", "p", "n", "g">>, <<"A", ".", "J", "P", "G">>,
      <<"a", ".", "j", "p", "e", "g">>, <<"a", ".", "W", "e", "b", "P">>,
      <<"s", ".", "g", "i", "f">>, <<"a", "p", "n", "g">> }

\* The screenshot's bytes: none, or one byte.
Images == {<<>>, <<"byte">>}

\* mime_type of the JSON body: None, image/png, image/gif.
MimeTypes == {None, Some("image/png"), Some("image/gif")}

\* The base64 text of the image as the client sends it: each byte as one
\* base64 chunk, padded with a blank on both sides, after a data-URL prefix
\* when the client uses one.
b64encode(image, data_url) ==
    (IF data_url THEN <<"data:", "image/png;base64", ",">> ELSE <<>>)
        \o <<" ">> \o [i \in 1..Len(image) |-> "QUJD"] \o <<" ">>

\* What the client sends on each step of its loop, to either endpoint.
Payloads ==
    [goal : Goals, session_id : SessionIds, context : Contexts,
     filename : Filenames, image : Images, data_url : BOOLEAN,
     mime_type : MimeTypes]

\* ---------------------------------------------------------- model replies

Doc(plan, action, target, coords, x, y, text_input, status) ==
    [top |-> "object", plan |-> plan, action |-> action, target |-> target,
     coords |-> coords, x |-> x, y |-> y, text_input |-> text_input,
     status |-> status]

\* {"plan":"Close popup","action":"CLICK","target":"close icon",
\*  "coords":{"x":950,"y":20},"text_input":"","status":"IN_PROGRESS"}
ClosePopupDoc ==
    Doc(JStr("Close popup"), JStr("CLICK"), JStr("close icon"), JObj,
        JInt(950), JInt(20), JStr(""), JStr("IN_PROGRESS"))

json_tag == <<"j", "s", "o", "n">>

\* The replies the external model gives in the request machine: the bare
\* object, the object in a json fence, the object after a bare json tag,
\* prose, nothing, and an object with x = 1001.
Replies ==
    { [text |-> <<"{">>, doc |-> ClosePopupDoc],
      [text |-> Fence \o json_tag \o <<"\n", "{", "\n">> \o Fence,
       doc |-> ClosePopupDoc],
      [text |-> json_tag \o <<" ", "{">>, doc |-> ClosePopupDoc],
      [text |-> <<"x">>, doc |-> ClosePopupDoc],
      [text |-> <<>>, doc |-> ClosePopupDoc],
      [text |-> <<"{">>, doc |-> [ClosePopupDoc EXCEPT !.x = JInt(1001)]] }

\* ------------------------------------------------------------------- state

VARIABLES
    payload,    \* the client's payload
    req,        \* req[r]: the handling of request r
    disk,       \* the names of the files in the temporary directory
    it          \* one reply text under the interpreter (InterpSpec)

vars == <<payload, req, disk, it>>

Requests == 1..NReq

\* A request not yet received.
NoRequest ==
    [kind |-> "none", pc |-> "idle", mime_type |-> None, tmp |-> 0,
     tmp_path |-> 0, sent |-> <<>>, reply |-> <<>>, result |-> <<>>]

\* ------------------------------------------------------ prompt construction

\* Lines 149-155 and 238: the user text of call_navigation_agent.
user_text_navigate(goal, session_id, context) ==
    (<<"User Goal: ">> \o strip(goal, Whitespace))
      \o (IF session_id # None /\ session_id[1] # <<>>
          THEN <<"\n", "Session ID: ">> \o session_id[1] ELSE <<>>)
      \o (IF context # None /\ context[1] # <<>>
          THEN <<"\n", "Context: ">> \o context[1] ELSE <<>>)
      \o <<"\n", "Remember: respond with ONLY the JSON object, nothing else.">>

\* user_text_base64 with the goal as received, not trimmed.
user_text_base64_untrimmed(goal, session_id, context) ==
    (<<"User Goal: ">> \o goal)
      \o (IF session_id # None /\ session_id[1] # <<>>
          THEN <<"\n", "Session ID: ">> \o session_id[1] ELSE <<>>)
      \o (IF context # None /\ context[1] # <<>>
          THEN <<"\n", "Context: ">> \o context[1] ELSE <<>>)
      \o <<"\n", "Remember: respond with ONLY the JSON object, nothing else.">>

\* Lines 174-181: the user text of call_navigation_agent_base64.
user_text_base64(goal, session_id, context) ==
    (<<"User Goal: ">> \o strip(goal, Whitespace))
      \o (IF session_id # None /\ session_id[1] # <<>>
          THEN <<"\n", "Session ID: ">> \o session_id[1] ELSE <<>>)
      \o (IF context # None /\ context[1] # <<>>
          THEN <<"\n", "Context: ">> \o context[1] ELSE <<>>)
      \o <<"\n", "Remember: respond with ONLY the JSON object, nothing else.">>

\* A UserMessage as handed to chat.send_message: the text and the one file
\* content (a file path with its MIME type, or inline base64).
UserMessage(text, file_path, mime_type, image_base64) ==
    [text |-> text, file_path |-> file_path, mime_type |-> mime_type,
     image_base64 |-> image_base64]

\* ------------------------------------------------------ POST /api/navigate

\* detect_mime_type comparing the name as given, not in lower case.
detect_mime_type_case_sensitive(filename) ==
    CASE endswith(filename, <<".", "p", "n", "g">>) -> Some("image/png")
      [] endswith(filename, <<".", "j", "p", "g">>)
         \/ endswith(filename, <<".", "j", "p", "e", "g">>) ->
            Some("image/jpeg")
      [] endswith(filename, <<".", "w", "e", "b", "p">>) -> Some("image/webp")
      [] OTHER -> None

\* detect_mime_type: the MIME type, or None where it raises the 400.
detect_mime_type(filename) ==
    LET lower_name == lower(filename)
    IN  CASE endswith(lower_name, <<".", "p", "n", "g">>) -> Some("image/png")
          [] endswith(lower_name, <<".", "j", "p", "g">>)
             \/ endswith(lower_name, <<".", "j", "p", "e", "g">>) ->
                Some("image/jpeg")
          [] endswith(lower_name, <<".", "w", "e", "b", "p">>) ->
                Some("image/webp")
          [] OTHER -> None

\* A request that ended with `response`.
Done(rq, response) == [rq EXCEPT !.pc = "done", !.result = <<response>>]

\* navigate, lines 280-293: the form's required goal, the goal check, the
\* MIME type, and the temporary file `name`, up to `await screenshot.read()`.
navigate_begin(p, name) ==
    LET rq == [NoRequest EXCEPT !.kind = "multipart"]
    IN  IF p.goal = None
        THEN Done(rq, Response(422, "Field required", <<>>))
        ELSE IF p.goal[1] = <<>> \/ strip(p.goal[1], Whitespace) = <<>>
        THEN Done(rq, Response(400, "Goal must be a non-empty string.", <<>>))
        ELSE IF detect_mime_type(p.filename) = None
        THEN Done(rq, Response(400,
                 "Unsupported image format. Use PNG, JPG, or WEBP.", <<>>))
        ELSE [rq EXCEPT !.pc = "read",
                        !.mime_type = detect_mime_type(p.filename),
                        !.tmp = name]

\* navigate, lines 293-299, and call_navigation_agent up to its
\* `await chat.send_message`: the empty upload is rejected before tmp_path
\* is bound; otherwise the content is written and the model is called.
navigate_read(rq, p) ==
    IF p.image = <<>>
    THEN Done(rq, Response(400, "Uploaded screenshot is empty.", <<>>))
    ELSE [rq EXCEPT
            !.pc = "await",
            !.tmp_path = rq.tmp,
            !.sent = Append(rq.sent,
                UserMessage(user_text_navigate(p.goal[1], p.session_id,
                                               p.context),
                            rq.tmp, rq.mime_type, <<>>))]

\* navigate_reply asking the model again when the reply is malformed.
navigate_reply_retry(rq, reply) ==
    IF interpret_navigate(reply.text, reply.doc).status = 200
    THEN [Done(rq, interpret_navigate(reply.text, reply.doc))
            EXCEPT !.reply = <<reply>>]
    ELSE [rq EXCEPT !.sent = Append(rq.sent, rq.sent[1])]

\* call_navigation_agent from the model's reply on, and navigate's return.
navigate_reply(rq, reply) ==
    [Done(rq, interpret_navigate(reply.text, reply.doc))
        EXCEPT !.reply = <<reply>>]

\* chat.send_message raised: neither function catches it.
upstream_failure(rq) == Done(rq, Response(500, "Internal Server Error", <<>>))

\* navigate's finally block, lines 301-306: the file is removed when
\* tmp_path is bound and the file exists.
remove_tmp(rq, files) ==
    IF rq.tmp_path # 0 /\ rq.tmp_path \in files
    THEN files \ {rq.tmp_path}
    ELSE files

\* tempfile.NamedTemporaryFile: a name no file of the directory has, and
\* (the names being drawn at random) none that was handed out before.
fresh_name(files, used) ==
    CHOOSE n \in Requests :
        /\ n \notin files \cup used
        /\ \A m \in Requests : m \notin files \cup used => n <= m

\* Requests are numbered in their order of arrival.
NextRequest(r) ==
    /\ req[r].pc = "idle"
    /\ \A q \in Requests : q < r => req[q].pc # "idle"

Navigate(r) ==
    /\ NextRequest(r)
    /\ LET rq == navigate_begin(payload,
                    fresh_name(disk, {req[q].tmp : q \in Requests}))
       IN  /\ req' = [req EXCEPT ![r] = rq]
           /\ disk' = IF rq.tmp # 0 THEN disk \cup {rq.tmp} ELSE disk
    /\ UNCHANGED <<payload, it>>

NavigateRead(r) ==
    /\ req[r].kind = "multipart" /\ req[r].pc = "read"
    /\ LET rq == navigate_read(req[r], payload)
       IN  /\ req' = [req EXCEPT ![r] = rq]
           /\ disk' = IF rq.pc = "done" THEN remove_tmp(rq, disk) ELSE disk
    /\ UNCHANGED <<payload, it>>

NavigateReply(r) ==
    /\ req[r].kind = "multipart" /\ req[r].pc = "await"
    /\ \E reply \in Replies :
         LET rq == navigate_reply(req[r], reply)
         IN  /\ req' = [req EXCEPT ![r] = rq]
             /\ disk' = remove_tmp(rq, disk)
    /\ UNCHANGED <<payload, it>>

NavigateUpstreamFailure(r) ==
    /\ req[r].kind = "multipart" /\ req[r].pc = "await"
    /\ LET rq == upstream_failure(req[r])
       IN  /\ req' = [req EXCEPT ![r] = rq]
           /\ disk' = remove_tmp(rq, disk)
    /\ UNCHANGED <<payload, it>>

\* ----------------------------------------------- POST /api/navigate/base64

RECURSIVE after_comma(_)
\* s.split(",", 1)[1], for an s that holds a comma.
after_comma(s) == IF Head(s) = "," THEN Tail(s) ELSE after_comma(Tail(s))

has_comma(s) == \E i \in 1..Len(s) : s[i] = ","

SupportedMimeTypes == {"image/png", "image/jpeg", "image/webp"}

\* NavigateBase64Request: the required goal with validate_goal, and the
\* Literal of mime_type.  TRUE when the body is accepted.
NavigateBase64Request(p) ==
    /\ p.goal # None
    /\ ~(p.goal[1] = <<>> \/ strip(p.goal[1], Whitespace) = <<>>)
    /\ p.mime_type = None \/ p.mime_type[1] \in SupportedMimeTypes

\* call_navigation_agent_base64, lines 168-170: the base64 text sent.
base64_str(image_base64) ==
    LET stripped == strip(image_base64, Whitespace)
    IN  IF startswith(stripped, <<"data:">>) /\ has_comma(stripped)
        THEN after_comma(stripped)
        ELSE stripped

\* navigate_base64, lines 197-219, and call_navigation_agent_base64 up to
\* its `await chat.send_message`.
navigate_base64_begin(p) ==
    LET rq == [NoRequest EXCEPT !.kind = "base64"]
    IN  IF ~NavigateBase64Request(p)
        THEN Done(rq, Response(422, "Unprocessable Entity", <<>>))
        ELSE IF p.mime_type # None /\ p.mime_type[1] \notin SupportedMimeTypes
        THEN Done(rq, Response(400,
                 "Unsupported image MIME type. Use image/png, image/jpeg, or image/webp.",
                 <<>>))
        ELSE [rq EXCEPT
                !.pc = "await",
                !.mime_type = p.mime_type,
                !.sent = Append(rq.sent,
                    UserMessage(user_text_base64(p.goal[1], p.session_id,
                                                 p.context),
                                0, None,
                                base64_str(b64encode(p.image, p.data_url))))]

\* call_navigation_agent_base64 from the model's reply on.
navigate_base64_reply(rq, reply) ==
    [Done(rq, interpret_base64(reply.text, reply.doc))
        EXCEPT !.reply = <<reply>>]

NavigateBase64(r) ==
    /\ NextRequest(r)
    /\ req' = [req EXCEPT ![r] = navigate_base64_begin(payload)]
    /\ UNCHANGED <<payload, disk, it>>

NavigateBase64Reply(r) ==
    /\ req[r].kind = "base64" /\ req[r].pc = "await"
    /\ \E reply \in Replies :
         req' = [req EXCEPT ![r] = navigate_base64_reply(req[r], reply)]
    /\ UNCHANGED <<payload, disk, it>>

NavigateBase64UpstreamFailure(r) ==
    /\ req[r].kind = "base64" /\ req[r].pc = "await"
    /\ req' = [req EXCEPT ![r] = upstream_failure(req[r])]
    /\ UNCHANGED <<payload, disk, it>>

\* ------------------------------------------------------------ specification

\* The interpreter harness when it is not in use.
ItOff ==
    [phase |-> "off", via |-> "none", text |-> <<>>, doc |-> ClosePopupDoc,
     parsed |-> <<>>, result |-> <<>>, tag |-> <<>>, inner |-> <<>>,
     wrapped |-> <<>>, wresult |-> <<>>]

Init ==
    /\ payload \in Payloads
    /\ req = [r \in Requests |-> NoRequest]
    /\ disk = {}
    /\ it = ItOff

Next ==
    \E r \in Requests :
        \/ Navigate(r)
        \/ NavigateRead(r)
        \/ NavigateReply(r)
        \/ NavigateUpstreamFailure(r)
        \/ NavigateBase64(r)
        \/ NavigateBase64Reply(r)
        \/ NavigateBase64UpstreamFailure(r)

Spec == Init /\ [][Next]_vars

\* ------------------------------------------- properties of the two routes

Received(r) == req[r].kind # "none"

Finished(r) == req[r].pc = "done"

ClientError(response) == response.status \in 400..499

MalformedOutput(response) ==
    response.status = 500 /\ response.detail = LLM_RESPONSE_INVALID
        /\ response.body = <<>>

\* The goal is missing, or empty once trimmed.
GoalInvalid(p) ==
    p.goal = None \/ \A i \in 1..Len(p.goal[1]) : p.goal[1][i] \in Whitespace

RECURSIVE Extension(_)
\* The filename's extension in lower case: what follows its last dot
\* (<<>> when it has no dot).
Extension(filename) ==
    IF filename = <<>> THEN <<>>
    ELSE IF \E i \in 2..Len(filename) : filename[i] = "."
         THEN Extension(Tail(filename))
         ELSE IF Head(filename) = "." THEN lower(Tail(filename)) ELSE <<>>

\* The MIME type each supported extension stands for.
MimeOfExtension ==
    { <<<<"p", "n", "g">>, "image/png">>,
      <<<<"j", "p", "g">>, "image/jpeg">>,
      <<<<"j", "p", "e", "g">>, "image/jpeg">>,
      <<<<"w", "e", "b", "p">>, "image/webp">> }

SupportedExtension(filename) ==
    \E m \in MimeOfExtension : m[1] = Extension(filename)

\* The image format the request names is not one of PNG, JPEG, WEBP.
FormatUnsupported(p, kind) ==
    IF kind = "multipart"
    THEN ~SupportedExtension(p.filename)
    ELSE p.mime_type # None /\ p.mime_type[1] \notin SupportedMimeTypes

InvalidRequest(p, kind) ==
    GoalInvalid(p) \/ FormatUnsupported(p, kind) \/ p.image = <<>>

\* C1: on either route, a request whose goal is missing or blank, whose
\* image format is unsupported or whose image is empty makes no model call
\* at any point, and ends in a client error.
C1_InvalidRequestRejectedBeforeModelCall ==
    \A r \in Requests :
        Received(r) /\ InvalidRequest(payload, req[r].kind) =>
            /\ req[r].sent = <<>>
            /\ Finished(r) => ClientError(req[r].result[1])

ActionFields ==
    {"plan", "action", "target", "coords", "text_input", "status"}

\* All six fields present, the enums in their closed sets, both
\* coordinates in [0, 1000].
ValidAction(a) ==
    /\ DOMAIN a = ActionFields
    /\ a.action \in ActionEnum
    /\ a.status \in StatusEnum
    /\ DOMAIN a.coords = {"x", "y"}
    /\ a.coords.x \in 0..1000
    /\ a.coords.y \in 0..1000

\* C3: a finished request has exactly one outcome, which is either one
\* fully valid Action (drawn from a model reply that holds a JSON
\* document) or one error with no Action in it.
C3_OneValidActionOrOneError ==
    \A r \in Requests :
        Finished(r) =>
            /\ Len(req[r].result) = 1
            /\ LET res == req[r].result[1]
               IN  \/ /\ res.status = 200
                      /\ Len(res.body) = 1
                      /\ ValidAction(res.body[1])
                      /\ req[r].reply # <<>>
                      /\ \E i \in 1..Len(req[r].reply[1].text) :
                            req[r].reply[1].text[i] = "{"
                   \/ /\ res.status >= 400
                      /\ res.detail # ""
                      /\ res.body = <<>>

C3_Witness ==
    \E r, q \in Requests :
        /\ Finished(r) /\ req[r].result[1].status = 200
        /\ Finished(q) /\ MalformedOutput(req[q].result[1])

\* C6: a request calls the model at most once, whatever the reply.
C6_AtMostOneModelCall ==
    \A r \in Requests : Len(req[r].sent) <= 1

C6_Witness ==
    \E r, q \in Requests :
        /\ Finished(r) /\ MalformedOutput(req[r].result[1])
        /\ Len(req[r].sent) = 1
        /\ Finished(q) /\ req[q].result[1].detail = "Internal Server Error"
        /\ Len(req[q].sent) = 1

\* The model returned one and the same text to both requests.
SameReply(m, b) ==
    req[m].reply # <<>> /\ req[b].reply # <<>> /\ req[m].reply = req[b].reply

\* C7: a multipart request and a JSON-body request with the same goal,
\* session identifier, context and image send the same user text, and on
\* the same reply text end in the same outcome.
C7_RoutesEquivalent ==
    \A m, b \in Requests :
        req[m].kind = "multipart" /\ req[b].kind = "base64" =>
            /\ req[m].sent # <<>> /\ req[b].sent # <<>> =>
                  req[m].sent[1].text = req[b].sent[1].text
            /\ Finished(m) /\ Finished(b) /\ SameReply(m, b) =>
                  req[m].result = req[b].result

C7_Witness ==
    \E m, b \in Requests :
        /\ req[m].kind = "multipart" /\ req[b].kind = "base64"
        /\ Finished(m) /\ Finished(b) /\ SameReply(m, b)
        /\ startswith(req[m].reply[1].text, Fence)
        /\ req[m].result[1].status = 200
        /\ payload.session_id = Some(<<"s">>)
        /\ payload.goal = Some(<<" ", "g", "o", " ">>)

\* C8: a multipart request's model call carries the MIME type of the
\* filename's extension, compared without regard to case; a supported
\* extension is not refused as a format; any other extension is refused
\* with a client error that is not the MalformedOutput failure, and no
\* model call is made.
C8_MimeTypeFromExtension ==
    \A r \in Requests :
        req[r].kind = "multipart" =>
            /\ \A i \in 1..Len(req[r].sent) :
                  \E m \in MimeOfExtension :
                      /\ m[1] = Extension(payload.filename)
                      /\ req[r].sent[i].mime_type = Some(m[2])
            /\ SupportedExtension(payload.filename) /\ Finished(r) =>
                  req[r].result[1].detail
                      # "Unsupported image format. Use PNG, JPG, or WEBP."
            /\ ~SupportedExtension(payload.filename) =>
                  /\ req[r].sent = <<>>
                  /\ Finished(r) =>
                        /\ ClientError(req[r].result[1])
                        /\ ~MalformedOutput(req[r].result[1])

C8_Witness ==
    \E r \in Requests :
        /\ req[r].kind = "multipart"
        /\ payload.filename = <<"A", ".", "J", "P", "G">>
        /\ Len(req[r].sent) = 1
        /\ req[r].sent[1].mime_type = Some("image/jpeg")

\* C10: once a multipart request has finished, whatever its outcome, the
\* temporary file it created is no longer on disk.
C10_TemporaryFileRemoved ==
    \A r \in Requests :
        req[r].kind = "multipart" /\ Finished(r) /\ req[r].tmp # 0 =>
            req[r].tmp \notin disk

\* ------------------------------------------------- the interpreter alone

\* Runs of newlines, as long as MaxPad.
NewlinePads == {[i \in 1..n |-> "\n"] : n \in 0..MaxPad}

\* The same, and the single blank and the single form feed.
Pads == NewlinePads \cup {<<" ">>, <<"\f">>}

\* No fence, or a fence of three backticks and up to MaxExtraTicks more.
OpeningFences ==
    {<<>>} \cup {Fence \o [i \in 1..n |-> Backtick] : n \in 0..MaxExtraTicks}

ClosingFences == {<<>>, Fence}

\* No tag, json, JSON, Json.
Tags == {<<>>, json_tag, <<"J", "S", "O", "N">>, <<"J", "s", "o", "n">>}

\* The JSON document, nothing, prose, the document with commentary after.
Bodies == {<<"{">>, <<>>, <<"x">>, <<"{", " ", "x">>}

\* The model's reply texts: padding, an opening fence, a blank or nothing,
\* a tag, padding, a body, padding, a closing fence, padding.
ReplyTexts ==
    { pre \o open \o gap \o tag \o mid \o body \o trail \o close \o post :
        pre \in NewlinePads \cup {<<"\f">>}, open \in OpeningFences,
        gap \in {<<>>, <<" ">>},
        tag \in Tags, mid \in NewlinePads, body \in Bodies,
        trail \in NewlinePads, close \in ClosingFences, post \in NewlinePads }

\* The valid Actions the round trip is tried on.
ValidActions ==
    { [plan |-> "Close popup", action |-> a, target |-> "close icon",
       coords |-> [x |-> x, y |-> y], text_input |-> ti, status |-> st] :
        a \in ActionEnum, x \in {0, 950, 1000}, y \in {0, 20, 1000},
        ti \in {"", "hello"}, st \in StatusEnum }

\* NavigationAction.model_dump_json, then json.loads: the Action as a
\* JSON object.
ToDoc(a) ==
    Doc(JStr(a.plan), JStr(a.action), JStr(a.target), JObj,
        JInt(a.coords.x), JInt(a.coords.y), JStr(a.text_input),
        JStr(a.status))

ValidDocs == {ToDoc(a) : a \in ValidActions}

\* ClosePopupDoc with one thing wrong, or unusual, in it.
OddDocs ==
    { [ClosePopupDoc EXCEPT !.plan = JAbsent],
      [ClosePopupDoc EXCEPT !.action = JAbsent],
      [ClosePopupDoc EXCEPT !.target = JAbsent],
      [ClosePopupDoc EXCEPT !.coords = JAbsent, !.x = JAbsent, !.y = JAbsent],
      [ClosePopupDoc EXCEPT !.text_input = JAbsent],
      [ClosePopupDoc EXCEPT !.status = JAbsent],
      [ClosePopupDoc EXCEPT !.x = JAbsent],
      [ClosePopupDoc EXCEPT !.y = JAbsent],
      [ClosePopupDoc EXCEPT !.action = JStr("click")],
      [ClosePopupDoc EXCEPT !.action = JStr("HOVER")],
      [ClosePopupDoc EXCEPT !.status = JStr("DONE")],
      [ClosePopupDoc EXCEPT !.x = JInt(-1)],
      [ClosePopupDoc EXCEPT !.x = JInt(1001)],
      [ClosePopupDoc EXCEPT !.y = JInt(-1)],
      [ClosePopupDoc EXCEPT !.y = JInt(1001)],
      [ClosePopupDoc EXCEPT !.x = JFloat(55)],
      [ClosePopupDoc EXCEPT !.y = JFloat(55)],
      [ClosePopupDoc EXCEPT !.x = JFloat(50)],
      [ClosePopupDoc EXCEPT !.x = JStr("5")],
      [ClosePopupDoc EXCEPT !.x = JStr("1001")],
      [ClosePopupDoc EXCEPT !.y = JStr("abc")],
      [ClosePopupDoc EXCEPT !.y = JBool(1)],
      [ClosePopupDoc EXCEPT !.x = JNull],
      [ClosePopupDoc EXCEPT !.coords = JStr("950,20"), !.x = JAbsent,
                            !.y = JAbsent],
      [ClosePopupDoc EXCEPT !.plan = JInt(1)],
      [ClosePopupDoc EXCEPT !.top = "array"] }

\* The replies the interpreter is tried on: every reply text around the
\* scenario's object, and every object bare and in a json fence.
InterpInputs ==
    {[text |-> t, doc |-> ClosePopupDoc] : t \in ReplyTexts}
      \cup {[text |-> t, doc |-> d] :
              t \in {<<"{">>, Fence \o json_tag \o <<"\n", "{", "\n">> \o Fence},
              d \in ValidDocs \cup OddDocs}

\* The text wrapped in fence markers: a tag or none right after the
\* opening fence, padding inside the fences and outside them.
Wrap(t, tag, inner, outer) ==
    outer \o Fence \o tag \o inner \o t \o inner \o Fence \o outer

interpret(via, text, doc) ==
    IF via = "navigate"
    THEN interpret_navigate(text, doc)
    ELSE interpret_base64(text, doc)

normalize(via, text) ==
    IF via = "navigate" THEN normalize_navigate(text) ELSE normalize_base64(text)

\* The reply handling of one of the two functions, applied to the text.
Interpret(via) ==
    /\ it.phase = "input"
    /\ it' = [it EXCEPT !.phase = "interpreted", !.via = via,
                        !.parsed = normalize(via, it.text),
                        !.result = <<interpret(via, it.text, it.doc)>>]
    /\ UNCHANGED <<payload, req, disk>>

\* The same function applied to the text wrapped in fence markers.
InterpretWrapped ==
    /\ it.phase = "interpreted"
    /\ it.result[1].status = 200
    /\ \E tag \in Tags, inner \in Pads, outer \in Pads :
         LET w == Wrap(it.text, tag, inner, outer)
         IN  it' = [it EXCEPT !.phase = "wrapped", !.tag = tag,
                              !.inner = inner, !.wrapped = <<w>>,
                              !.wresult = <<interpret(it.via, w, it.doc)>>]
    /\ UNCHANGED <<payload, req, disk>>

InterpInit ==
    /\ payload = [goal |-> None, session_id |-> None, context |-> None,
                  filename |-> <<>>, image |-> <<>>, data_url |-> FALSE,
                  mime_type |-> None]
    /\ req = [r \in Requests |-> NoRequest]
    /\ disk = {}
    /\ it \in {[ItOff EXCEPT !.phase = "input", !.text = i.text,
                             !.doc = i.doc] : i \in InterpInputs}

InterpNext ==
    \/ Interpret("navigate")
    \/ Interpret("base64")
    \/ InterpretWrapped

InterpSpec == InterpInit /\ [][InterpNext]_vars

\* ------------------------------------------ properties of the interpreter

Interpreted == it.phase \in {"interpreted", "wrapped"}

\* The text is one JSON document and nothing else.
BareDocument == it.text = <<"{">>

Present(v) == v.t # "absent"

\* A coordinate that is there and is not an integer: a string, a boolean,
\* null, or a number with a fractional part.
NotAnInteger(v) ==
    \/ v.t \in {"str", "bool", "null"}
    \/ v.t = "float" /\ v.n % 10 # 0

OutOfRange(v) == v.t = "int" /\ (v.n < 0 \/ v.n > 1000)

\* A JSON object that lacks a required field, or whose action is not one
\* of the five, or with a coordinate outside [0, 1000] or not an integer.
DefectiveObject(d) ==
    /\ d.top = "object"
    /\ \/ \E f \in {d.plan, d.action, d.target, d.coords, d.text_input,
                    d.status} : ~Present(f)
       \/ d.action.t = "str" /\ d.action.s \notin ActionEnum
       \/ d.coords.t = "obj" /\
            (OutOfRange(d.x) \/ OutOfRange(d.y)
               \/ NotAnInteger(d.x) \/ NotAnInteger(d.y))

\* C2: a JSON object that lacks a required field, or whose action is not
\* one of the five, or with a coordinate outside [0, 1000] or not an
\* integer, is refused with the MalformedOutput failure and no Action.
C2_DefectiveObjectRefused ==
    Interpreted /\ BareDocument /\ DefectiveObject(it.doc) =>
        MalformedOutput(it.result[1])

\* The text begins, once trimmed, with a fence marker.
Fenced(text) == startswith(strip(text, Whitespace), Fence)

\* C4 as stated: whatever text interprets to an Action, the text wrapped
\* in fence markers interprets to the same Action.
C4_WrappingAnyTextKeepsAction ==
    it.phase = "wrapped" => it.wresult = it.result

\* Every whitespace character between the fence markers and the JSON
\* document is one json.loads skips.
JsonPadded(text, inner) ==
    \A i \in 1..Len(inner \o text) :
        (inner \o text)[i] \in Whitespace => (inner \o text)[i] \in JsonWhitespace

\* C4, amended: a text that interprets to an Action and does not itself
\* begin with a fence marker interprets to the same Action when wrapped in
\* fence markers, with a json tag in any letter case or, provided the
\* whitespace inside the fence markers is whitespace JSON allows, without
\* one, and with whitespace around it.
C4_WrappingUnfencedTextKeepsAction ==
    /\ it.phase = "wrapped"
    /\ ~Fenced(it.text)
    /\ it.tag = <<>> => JsonPadded(it.text, it.inner)
    => it.wresult = it.result

C4_Witness ==
    /\ it.phase = "wrapped"
    /\ ~Fenced(it.text)
    /\ it.text = <<"\n", "{", "\n">>
    /\ it.wrapped = <<Wrap(it.text, <<"J", "S", "O", "N">>, <<"\f">>, <<" ">>)>>
    /\ it.wresult[1].status = 200

\* C5: the JSON serialization of a valid Action interprets to an Action
\* equal to it in every field.
C5_RoundTrip ==
    \A a \in ValidActions :
        Interpreted /\ BareDocument /\ it.doc = ToDoc(a) =>
            it.result[1] = Response(200, "", <<a>>)

C5_Witness ==
    /\ Interpreted /\ BareDocument
    /\ \E a \in ValidActions :
         /\ it.doc = ToDoc(a)
         /\ a.coords.x = 1000 /\ a.action = "TYPE" /\ a.text_input = "hello"
         /\ it.result[1].body = <<a>>

\* Steps 1 and 2 of the normalization: the text trimmed, and with the
\* backticks at both ends taken off when it begins with a fence marker.
FenceStripped(text) ==
    IF Fenced(text)
    THEN strip(strip(text, Whitespace), {Backtick})
    ELSE strip(text, Whitespace)

BeginsWithTag(text) == startswith(lower(FenceStripped(text)), json_tag)

\* C9 as stated: whenever the trimmed and fence-stripped text begins with
\* json in any letter case, the tag and the whitespace after it are taken
\* off before parsing, fence or no fence.
C9_TagRemovedFromAnyText ==
    Interpreted /\ BeginsWithTag(it.text) =>
        it.parsed = strip(drop4(FenceStripped(it.text)), Whitespace)

\* C9, amended: the tag and the whitespace after it are taken off before
\* parsing when the trimmed text began with a fence marker; a text with no
\* fence is parsed as trimmed, tag and all.
C9_TagRemovedFromFencedText ==
    Interpreted /\ BeginsWithTag(it.text) =>
        IF Fenced(it.text)
        THEN it.parsed = strip(drop4(FenceStripped(it.text)), Whitespace)
        ELSE it.parsed = FenceStripped(it.text)

C9_Witness ==
    /\ Interpreted
    /\ Fenced(it.text)
    /\ startswith(FenceStripped(it.text), <<"J", "s", "o", "n", "\n">>)
    /\ it.parsed = <<"{">>
    /\ it.result[1].status = 200

====
